---- MODULE Spec2Model ----
(***************************************************************************)
(* Model of the two-party escrow program of src/src/lib.rs.                *)
(*                                                                         *)
(* The ledger is a set of accounts (lamports, data, owner).  One step is   *)
(* one call of process_instruction on an input buffer and an account list; *)
(* a call that returns an error leaves the ledger as it was (the host      *)
(* discards the account changes of a failed instruction).                  *)
(*                                                                         *)
(* Scaling: a byte ranges over 0..ByteBase-1 and a u64 is AmountLen bytes, *)
(* so U64Max = ByteBase^AmountLen - 1 stands for 2^64 - 1; a 32-byte       *)
(* public key is one data unit.  find_program_address is a hash the model  *)
(* replaces by a table with distinct results.                              *)
(***************************************************************************)
EXTENDS Integers, Sequences, FiniteSets, TLC

VARIABLES lamports, data, owner, pre, last, step

vars == <<lamports, data, owner, pre, last, step>>

-----------------------------------------------------------------------------
(* Bounds and scaled widths *)

ByteBase == 4

AmountLen == 2

RECURSIVE Pow(_, _)
Pow(b, n) == IF n = 0 THEN 1 ELSE b * Pow(b, n - 1)

U64Max == Pow(ByteBase, AmountLen) - 1

Byte == 0 .. (ByteBase - 1)

(* rent.minimum_balance(ESCROW_STATE_LEN), a value the host supplies *)
RentMin == 2

(* bool + initializer key + taker key + amount + bump, in data units *)
ESCROW_STATE_LEN == 1 + 1 + 1 + AmountLen + 1

-----------------------------------------------------------------------------
(* Keys and accounts *)

Wallets == {"A", "B"}

ForgedKey == "F"

ZeroKey == "Zero"

Pdas == {"PA", "PB"}

Addrs == Wallets \cup {ForgedKey} \cup Pdas

(* keys that have a private key; a program-derived address has none *)
CanSign == Wallets \cup {ForgedKey}

SystemOwner == "system"

ProgramOwner == "escrow_program"

ForeignOwner == "foreign_program"

(* Pubkey::find_program_address(&[ESCROW_PDA_SEED, initializer], program_id) *)
find_program_address(k) ==
    IF k = "A" THEN [pda |-> "PA", bump |-> ByteBase - 1]
    ELSE [pda |-> "PB", bump |-> ByteBase - 2]

-----------------------------------------------------------------------------
(* Little-endian integers *)

RECURSIVE FromLE(_)
FromLE(bs) == IF bs = <<>> THEN 0 ELSE bs[1] + ByteBase * FromLE(Tail(bs))

RECURSIVE ToLE(_, _)
ToLE(v, n) == IF n = 0 THEN <<>> ELSE <<v % ByteBase>> \o ToLE(v \div ByteBase, n - 1)

-----------------------------------------------------------------------------
(* EscrowInstruction::try_from_slice *)

DecodeErr == [ok |-> FALSE, tag |-> "Undecodable", amount |-> 0]

EscrowInstruction_deserialize_prefix(input) ==
    IF Len(input) = 0 THEN DecodeErr
    ELSE LET rest == Tail(input) IN
         CASE input[1] = 0 ->
                  IF Len(rest) >= AmountLen
                  THEN [ok |-> TRUE, tag |-> "Initialize",
                        amount |-> FromLE(SubSeq(rest, 1, AmountLen))]
                  ELSE DecodeErr
           [] input[1] = 1 -> [ok |-> TRUE, tag |-> "Deposit", amount |-> 0]
           [] input[1] = 2 -> [ok |-> TRUE, tag |-> "Withdraw", amount |-> 0]
           [] OTHER -> DecodeErr

EscrowInstruction_try_from_slice(input) ==
    IF Len(input) = 0 THEN DecodeErr
    ELSE LET rest == Tail(input) IN
         CASE input[1] = 0 ->
                  IF Len(rest) = AmountLen
                  THEN [ok |-> TRUE, tag |-> "Initialize", amount |-> FromLE(rest)]
                  ELSE DecodeErr
           [] input[1] = 1 ->
                  IF rest = <<>> THEN [ok |-> TRUE, tag |-> "Deposit", amount |-> 0]
                  ELSE DecodeErr
           [] input[1] = 2 ->
                  IF rest = <<>> THEN [ok |-> TRUE, tag |-> "Withdraw", amount |-> 0]
                  ELSE DecodeErr
           [] OTHER -> DecodeErr

-----------------------------------------------------------------------------
(* EscrowState: serialize and try_from_slice *)

EscrowState_serialize(st) ==
    <<IF st.is_initialized THEN 1 ELSE 0, st.initializer_pubkey, st.taker_pubkey>>
        \o ToLE(st.amount, AmountLen) \o <<st.bump>>

NoState ==
    [ok |-> FALSE, is_initialized |-> FALSE, initializer_pubkey |-> ZeroKey,
     taker_pubkey |-> ZeroKey, amount |-> 0, bump |-> 0]

EscrowState_try_from_slice(d) ==
    IF Len(d) # ESCROW_STATE_LEN THEN NoState
    ELSE IF d[1] \notin {0, 1} THEN NoState
    ELSE [ok |-> TRUE, is_initialized |-> (d[1] = 1), initializer_pubkey |-> d[2],
          taker_pubkey |-> d[3], amount |-> FromLE(SubSeq(d, 4, 3 + AmountLen)),
          bump |-> d[4 + AmountLen]]

Zeroed == <<0, ZeroKey, ZeroKey>> \o ToLE(0, AmountLen) \o <<0>>

-----------------------------------------------------------------------------
(* Checked arithmetic on u64 *)

NoneVal == -1

wrapping_sub(a, b) == (a - b) % (U64Max + 1)

saturating_sub(a, b) == IF a >= b THEN a - b ELSE 0

checked_sub(a, b) == IF a >= b THEN a - b ELSE NoneVal

wrapping_add(a, b) == (a + b) % (U64Max + 1)

checked_add(a, b) == IF a + b <= U64Max THEN a + b ELSE NoneVal

-----------------------------------------------------------------------------
(* The ledger as a value, and the outcome of a handler *)

Ledger == [lamports |-> lamports, data |-> data, owner |-> owner]

Fail(L, e) == [res |-> e, led |-> L]

(* system_instruction::transfer, as the system program executes it *)
system_transfer(L, from, to, amt) ==
    IF L.data[from] # <<>> THEN Fail(L, "InvalidArgument")
    ELSE IF L.lamports[from] < amt THEN Fail(L, "ResultWithNegativeLamports")
    ELSE IF from # to /\ L.lamports[to] + amt > U64Max THEN Fail(L, "ArithmeticOverflow")
    ELSE [res |-> "Ok",
          led |-> [L EXCEPT !.lamports =
                      [a \in Addrs |->
                          IF from = to THEN L.lamports[a]
                          ELSE IF a = from THEN L.lamports[a] - amt
                          ELSE IF a = to THEN L.lamports[a] + amt
                          ELSE L.lamports[a]]]]

system_create_account_no_in_use_check(L, from, to, lams, space, newOwner) ==
    LET L1 == [L EXCEPT !.data[to] = SubSeq(Zeroed, 1, space),
                        !.owner[to] = newOwner]
    IN  system_transfer(L1, from, to, lams)

(* system_instruction::create_account, as the system program executes it *)
system_create_account(L, from, to, lams, space, newOwner) ==
    IF L.lamports[to] > 0 \/ L.data[to] # <<>> \/ L.owner[to] # SystemOwner
    THEN Fail(L, "AccountAlreadyInUse")
    ELSE LET L1 == [L EXCEPT !.data[to] = SubSeq(Zeroed, 1, space),
                             !.owner[to] = newOwner]
         IN  system_transfer(L1, from, to, lams)

-----------------------------------------------------------------------------
(* The account list of an instruction: the keys of the initializer, taker  *)
(* and escrow accounts and the is_signer flags of the first two            *)

initialize_signed(acc) == acc.isig

deposit_signed_initializer_only(acc) == acc.isig

deposit_signed(acc) == acc.isig /\ acc.tsig

withdraw_signed_initializer_only(acc) == acc.isig

withdraw_signed(acc) == acc.isig /\ acc.tsig

deposit_keys_match_initializer_only(st, acc) ==
    st.initializer_pubkey = acc.initializer

deposit_keys_match(st, acc) ==
    st.initializer_pubkey = acc.initializer /\ st.taker_pubkey = acc.taker

withdraw_keys_match_initializer_only(st, acc) ==
    st.initializer_pubkey = acc.initializer

withdraw_keys_match_taker_only(st, acc) ==
    st.taker_pubkey = acc.taker

withdraw_keys_match(st, acc) ==
    st.initializer_pubkey = acc.initializer /\ st.taker_pubkey = acc.taker

initialize_address_unchecked(acc) == TRUE

initialize_address_ok(acc) == find_program_address(acc.initializer).pda = acc.escrow

withdraw_address_ok(acc) == find_program_address(acc.initializer).pda = acc.escrow

new_escrow_state_taker_lost(acc, amount) ==
    [is_initialized |-> TRUE,
     initializer_pubkey |-> acc.initializer,
     taker_pubkey |-> acc.initializer,
     amount |-> amount,
     bump |-> find_program_address(acc.initializer).bump]

(* the EscrowState that process_initialize writes *)
new_escrow_state(acc, amount) ==
    [is_initialized |-> TRUE,
     initializer_pubkey |-> acc.initializer,
     taker_pubkey |-> acc.taker,
     amount |-> amount,
     bump |-> find_program_address(acc.initializer).bump]

deposit_transfer_to_taker(L, acc, st) ==
    system_transfer(L, acc.initializer, acc.taker, st.amount)

deposit_transfer_clears_flag(L, acc, st) ==
    LET t == system_transfer(L, acc.initializer, acc.escrow, st.amount) IN
    IF t.res # "Ok" THEN t
    ELSE [res |-> "Ok",
          led |-> [t.led EXCEPT !.data[acc.escrow] =
                      EscrowState_serialize([st EXCEPT !.is_initialized = FALSE])]]

deposit_transfer_rent_amount(L, acc, st) ==
    system_transfer(L, acc.initializer, acc.escrow, RentMin)

(* the transfer of process_deposit: amount lamports, initializer to escrow *)
deposit_transfer(L, acc, st) ==
    system_transfer(L, acc.initializer, acc.escrow, st.amount)

withdraw_bookkeeping_marks_consumed(L, acc, st) ==
    IF acc.taker = acc.escrow THEN Fail(L, "BorrowMutError")
    ELSE LET new_escrow == checked_sub(L.lamports[acc.escrow], st.amount)
             new_taker == checked_add(L.lamports[acc.taker], st.amount)
         IN  IF new_escrow = NoneVal THEN Fail(L, "InsufficientFunds")
             ELSE IF new_taker = NoneVal THEN Fail(L, "InvalidAccountData")
             ELSE [res |-> "Ok",
                   led |-> [L EXCEPT !.lamports =
                               [a \in Addrs |->
                                   IF a = acc.taker THEN new_taker
                                   ELSE IF a = acc.escrow THEN new_escrow
                                   ELSE L.lamports[a]],
                            !.data[acc.escrow] = <<0>> \o Tail(@)]]

withdraw_bookkeeping_debit_before_credit_check(L, acc, st) ==
    IF acc.taker = acc.escrow THEN Fail(L, "BorrowMutError")
    ELSE LET new_escrow == checked_sub(L.lamports[acc.escrow], st.amount)
             new_taker == checked_add(L.lamports[acc.taker], st.amount)
             debited == [L EXCEPT !.lamports[acc.escrow] = new_escrow]
         IN  IF new_escrow = NoneVal THEN Fail(L, "InsufficientFunds")
             ELSE IF new_taker = NoneVal THEN Fail(debited, "InvalidAccountData")
             ELSE [res |-> "Ok",
                   led |-> [debited EXCEPT !.lamports[acc.taker] = new_taker]]

(* the block of process_withdraw that borrows both balances, computes the  *)
(* debit and the credit with checked arithmetic, then writes both          *)
withdraw_bookkeeping(L, acc, st) ==
    IF acc.taker = acc.escrow THEN Fail(L, "BorrowMutError")
    ELSE LET new_escrow == checked_sub(L.lamports[acc.escrow], st.amount)
             new_taker == checked_add(L.lamports[acc.taker], st.amount)
         IN  IF new_escrow = NoneVal THEN Fail(L, "InsufficientFunds")
             ELSE IF new_taker = NoneVal THEN Fail(L, "InvalidAccountData")
             ELSE [res |-> "Ok",
                   led |-> [L EXCEPT !.lamports =
                               [a \in Addrs |->
                                   IF a = acc.taker THEN new_taker
                                   ELSE IF a = acc.escrow THEN new_escrow
                                   ELSE L.lamports[a]]]]

-----------------------------------------------------------------------------
(* The handlers.  The host's checks after a handler returns (only the     *)
(* owner of an account may debit it or write its data) never reject what   *)
(* these handlers do: see EscrowAccountsOwned.                             *)

process_initialize(L, acc, amount) ==
    IF ~initialize_signed(acc) THEN Fail(L, "MissingRequiredSignature")
    ELSE IF ~initialize_address_ok(acc) THEN Fail(L, "InvalidSeeds")
    ELSE LET c == system_create_account(L, acc.initializer, acc.escrow, RentMin,
                                        ESCROW_STATE_LEN, ProgramOwner)
             escrow_state == new_escrow_state(acc, amount)
             bytes == EscrowState_serialize(escrow_state)
         IN  IF c.res # "Ok" THEN Fail(L, c.res)
             ELSE IF Len(c.led.data[acc.escrow]) < Len(bytes) THEN Fail(L, "BorshIoError")
             ELSE [res |-> "Ok",
                   led |-> [c.led EXCEPT !.data[acc.escrow] =
                               bytes \o SubSeq(@, Len(bytes) + 1, Len(@))]]

process_deposit(L, acc) ==
    IF ~deposit_signed(acc) THEN Fail(L, "MissingRequiredSignature")
    ELSE LET escrow_state == EscrowState_try_from_slice(L.data[acc.escrow]) IN
         IF ~escrow_state.ok THEN Fail(L, "BorshIoError")
         ELSE IF ~escrow_state.is_initialized THEN Fail(L, "UninitializedAccount")
         ELSE IF ~deposit_keys_match(escrow_state, acc) THEN Fail(L, "InvalidAccountData")
         ELSE LET t == deposit_transfer(L, acc, escrow_state)
              IN  IF t.res # "Ok" THEN Fail(L, t.res) ELSE t

process_withdraw(L, acc) ==
    IF ~withdraw_signed(acc) THEN Fail(L, "MissingRequiredSignature")
    ELSE LET escrow_state == EscrowState_try_from_slice(L.data[acc.escrow]) IN
         IF ~escrow_state.ok THEN Fail(L, "BorshIoError")
         ELSE IF ~escrow_state.is_initialized THEN Fail(L, "UninitializedAccount")
         ELSE IF ~withdraw_keys_match(escrow_state, acc) THEN Fail(L, "InvalidAccountData")
         ELSE IF ~withdraw_address_ok(acc) THEN Fail(L, "InvalidSeeds")
         ELSE withdraw_bookkeeping(L, acc, escrow_state)

process_instruction(L, acc, input) ==
    LET instruction == EscrowInstruction_try_from_slice(input) IN
    IF ~instruction.ok THEN Fail(L, "InvalidInstructionData")
    ELSE CASE instruction.tag = "Initialize" -> process_initialize(L, acc, instruction.amount)
           [] instruction.tag = "Deposit" -> process_deposit(L, acc)
           [] instruction.tag = "Withdraw" -> process_withdraw(L, acc)

-----------------------------------------------------------------------------
(* Inputs of the checked runs *)

Amounts == {1, ByteBase + 1}

EncodeInitialize(amount) == <<0>> \o ToLE(amount, AmountLen)

Inputs ==
    {EncodeInitialize(a) : a \in Amounts} \cup {<<1>>, <<2>>} \cup {<<3>>}

(* An account list carries the accounts the handlers read, in order, so    *)
(* next_account_info succeeds; the system program account is the real one. *)
(* The same account may be named twice (initializer = taker), and then has *)
(* one is_signer flag.  A derived address never signs.                     *)
AccountLists ==
    {acc \in [initializer : Wallets, taker : CanSign, escrow : Pdas \cup {ForgedKey},
              isig : BOOLEAN, tsig : BOOLEAN] :
        acc.initializer = acc.taker => acc.isig = acc.tsig}

ForgedRecord ==
    EscrowState_serialize([is_initialized |-> TRUE, initializer_pubkey |-> "A",
                           taker_pubkey |-> ForgedKey, amount |-> 1, bump |-> 0])

ForgedData == {ForgedRecord, Zeroed}

InitLamports ==
    [a \in Addrs |->
        CASE a = "A" -> RentMin + ByteBase + 2
          [] a = "B" -> RentMin - 1
          [] a = ForgedKey -> U64Max - 1
          [] OTHER -> 0]

NoCall ==
    [input |-> <<>>, tag |-> "None", amount |-> 0, initializer |-> ZeroKey,
     taker |-> ZeroKey, escrow |-> ZeroKey, isig |-> FALSE, tsig |-> FALSE,
     res |-> "None"]

-----------------------------------------------------------------------------
(* The state machine *)

Init ==
    /\ lamports = InitLamports
    /\ \E fd \in ForgedData :
           data = [a \in Addrs |-> IF a = ForgedKey THEN fd ELSE <<>>]
    /\ owner = [a \in Addrs |-> IF a = ForgedKey THEN ForeignOwner ELSE SystemOwner]
    /\ pre = [lamports |-> lamports, data |-> data, owner |-> owner]
    /\ last = NoCall
    /\ step = 0

(* One call of process_instruction: the ledger takes the handler's result, *)
(* pre keeps the ledger the call started from and last what was called.    *)
Execute(input, acc) ==
    LET out == process_instruction(Ledger, acc, input)
        ins == EscrowInstruction_try_from_slice(input)
    IN  /\ lamports' = out.led.lamports
        /\ data' = out.led.data
        /\ owner' = out.led.owner
        /\ pre' = Ledger
        /\ last' = [input |-> input, tag |-> ins.tag, amount |-> ins.amount,
                    initializer |-> acc.initializer, taker |-> acc.taker,
                    escrow |-> acc.escrow, isig |-> acc.isig, tsig |-> acc.tsig,
                    res |-> out.res]

(* step counts the calls of a scripted sequence; free runs leave it at 0 *)
Call(input, acc) == Execute(input, acc) /\ step' = step

Initialize ==
    /\ last = NoCall
    /\ \E input \in Inputs, acc \in AccountLists :
        EscrowInstruction_try_from_slice(input).tag = "Initialize" /\ Call(input, acc)

Deposit ==
    /\ last = NoCall
    /\ \E input \in Inputs, acc \in AccountLists :
        EscrowInstruction_try_from_slice(input).tag = "Deposit" /\ Call(input, acc)

Withdraw ==
    /\ last = NoCall
    /\ \E input \in Inputs, acc \in AccountLists :
        EscrowInstruction_try_from_slice(input).tag = "Withdraw" /\ Call(input, acc)

Malformed ==
    /\ last = NoCall
    /\ \E input \in Inputs, acc \in AccountLists :
        ~EscrowInstruction_try_from_slice(input).ok /\ Call(input, acc)

(* The ProgramResult has gone back to the caller: the next instruction     *)
(* starts from the ledger as it is now.                                    *)
Return ==
    /\ last # NoCall
    /\ last' = NoCall
    /\ pre' = Ledger
    /\ UNCHANGED <<lamports, data, owner, step>>

Next == Initialize \/ Deposit \/ Withdraw \/ Malformed \/ Return

Spec == Init /\ [][Next]_vars

TypeOK ==
    /\ lamports \in [Addrs -> 0 .. U64Max]
    /\ \A a \in Addrs : owner[a] \in {SystemOwner, ProgramOwner, ForeignOwner}

(* an account the program debits or writes is one the program owns *)
EscrowAccountsOwned ==
    /\ \A a \in Pdas : data[a] # <<>> => owner[a] = ProgramOwner
    /\ (last # NoCall /\ last.tag = "Withdraw" /\ last.res = "Ok")
           => owner[last.escrow] = ProgramOwner

-----------------------------------------------------------------------------
(* What the claims speak about: the call just made (last), the ledger it   *)
(* started from (pre) and the ledger it left.                              *)

IsCall(t) == last # NoCall /\ last.tag = t

(* the record held by the supplied escrow account when the call started *)
Stored == EscrowState_try_from_slice(pre.data[last.escrow])

HasRecord == Stored.ok /\ Stored.is_initialized

BothSigned == last.isig /\ last.tsig

KeysAsStored ==
    Stored.initializer_pubkey = last.initializer /\ Stored.taker_pubkey = last.taker

DerivedAddress == find_program_address(last.initializer).pda

BalancesUnchanged == lamports = pre.lamports

LedgerUnchanged == Ledger = pre

(* a Withdraw that has passed every check before the balance bookkeeping *)
WithdrawReachesBookkeeping ==
    /\ IsCall("Withdraw")
    /\ BothSigned
    /\ HasRecord
    /\ KeysAsStored
    /\ last.escrow = DerivedAddress

-----------------------------------------------------------------------------
(* C1: every successful Withdraw takes exactly the stored amount from the  *)
(* escrow account and adds exactly that amount to the account whose key is *)
(* the stored taker; no other balance changes.                             *)
C1_WithdrawPaysStoredTaker ==
    (IsCall("Withdraw") /\ last.res = "Ok") =>
        /\ HasRecord
        /\ Stored.taker_pubkey \in Addrs
        /\ Stored.taker_pubkey # last.escrow
        /\ lamports[last.escrow] = pre.lamports[last.escrow] - Stored.amount
        /\ lamports[Stored.taker_pubkey] =
               pre.lamports[Stored.taker_pubkey] + Stored.amount
        /\ \A a \in Addrs \ {last.escrow, Stored.taker_pubkey} :
               lamports[a] = pre.lamports[a]

C1_Witness ==
    /\ IsCall("Withdraw") /\ last.res = "Ok"
    /\ Stored.amount > 1
    /\ last.taker # last.initializer
    /\ lamports[last.taker] = pre.lamports[last.taker] + Stored.amount

(* C2: a Withdraw that reaches the balance bookkeeping while the escrow    *)
(* balance is below the stored amount fails with InsufficientFunds; no     *)
(* Withdraw leaves the escrow balance negative or wrapped; a failed        *)
(* Withdraw leaves the escrow and taker balances as they were.             *)
C2_WithdrawInsufficientFunds ==
    IsCall("Withdraw") =>
        /\ (WithdrawReachesBookkeeping
              /\ pre.lamports[last.escrow] < Stored.amount)
               => last.res = "InsufficientFunds"
        /\ lamports[last.escrow] \in 0 .. U64Max
        /\ lamports[last.escrow] <= pre.lamports[last.escrow]
        /\ last.res # "Ok" =>
               /\ lamports[last.escrow] = pre.lamports[last.escrow]
               /\ lamports[last.taker] = pre.lamports[last.taker]

C2_Witness ==
    /\ WithdrawReachesBookkeeping
    /\ pre.lamports[last.escrow] > 0
    /\ pre.lamports[last.escrow] < Stored.amount
    /\ last.res = "InsufficientFunds"

(* C3: a Withdraw that reaches the balance bookkeeping with enough escrow  *)
(* balance, when taker balance + stored amount exceeds the u64 maximum,    *)
(* fails with InvalidAccountData and changes neither the taker nor the     *)
(* escrow balance.                                                         *)
C3_WithdrawCreditOverflow ==
    (/\ WithdrawReachesBookkeeping
     /\ pre.lamports[last.escrow] >= Stored.amount
     /\ pre.lamports[last.taker] + Stored.amount > U64Max)
        => /\ last.res = "InvalidAccountData"
           /\ lamports[last.taker] = pre.lamports[last.taker]
           /\ lamports[last.escrow] = pre.lamports[last.escrow]

C3_Witness ==
    /\ WithdrawReachesBookkeeping
    /\ pre.lamports[last.escrow] >= Stored.amount
    /\ pre.lamports[last.taker] + Stored.amount > U64Max
    /\ last.res = "InvalidAccountData"
    /\ BalancesUnchanged

(* C4: a Withdraw fails with MissingRequiredSignature whenever the         *)
(* initializer or the taker has not signed, and no step lowers the balance *)
(* of an escrow account unless it is a Withdraw both of them signed.       *)
C4_WithdrawNeedsBothSignatures ==
    /\ (IsCall("Withdraw") /\ ~BothSigned) => last.res = "MissingRequiredSignature"
    /\ last # NoCall =>
           \A a \in Pdas \cup {last.escrow} :
               lamports[a] < pre.lamports[a] => (IsCall("Withdraw") /\ BothSigned)

C4_Witness ==
    /\ IsCall("Withdraw")
    /\ last.isig /\ ~last.tsig
    /\ HasRecord /\ KeysAsStored /\ last.escrow = DerivedAddress
    /\ pre.lamports[last.escrow] >= Stored.amount
    /\ last.res = "MissingRequiredSignature"
    /\ BalancesUnchanged

(* C5, as stated: a successful Deposit on an initialized record adds the   *)
(* stored amount to the escrow balance, takes it from the initializer's    *)
(* balance and leaves the taker's balance and the record unchanged; when   *)
(* the initializer's balance is below the amount the Deposit fails with    *)
(* the host's error.                                                       *)
C5_DepositLeavesTakerBalance ==
    (IsCall("Deposit") /\ HasRecord) =>
        /\ last.res = "Ok" =>
               /\ lamports[last.escrow] = pre.lamports[last.escrow] + Stored.amount
               /\ lamports[last.initializer] =
                      pre.lamports[last.initializer] - Stored.amount
               /\ lamports[last.taker] = pre.lamports[last.taker]
               /\ data = pre.data
        /\ (BothSigned /\ KeysAsStored
              /\ pre.lamports[last.initializer] < Stored.amount)
               => last.res = "ResultWithNegativeLamports"

(* C5, amended: as above, and the balance of every account other than the  *)
(* initializer and the escrow account is unchanged; the taker's balance is *)
(* unchanged when the taker is neither of those two accounts.              *)
C5_DepositMovesAmountToEscrow ==
    (IsCall("Deposit") /\ HasRecord) =>
        /\ last.res = "Ok" =>
               /\ lamports[last.escrow] = pre.lamports[last.escrow] + Stored.amount
               /\ lamports[last.initializer] =
                      pre.lamports[last.initializer] - Stored.amount
               /\ \A a \in Addrs \ {last.initializer, last.escrow} :
                      lamports[a] = pre.lamports[a]
               /\ last.taker \notin {last.initializer, last.escrow} =>
                      lamports[last.taker] = pre.lamports[last.taker]
               /\ data = pre.data
        /\ (BothSigned /\ KeysAsStored
              /\ pre.lamports[last.initializer] < Stored.amount)
               => (last.res = "ResultWithNegativeLamports" /\ LedgerUnchanged)

C5_Witness ==
    /\ IsCall("Deposit") /\ HasRecord /\ last.res = "Ok"
    /\ last.taker \notin {last.initializer, last.escrow}
    /\ last.escrow = DerivedAddress
    /\ Stored.amount > 1
    /\ lamports[last.taker] = pre.lamports[last.taker]
    /\ lamports[last.initializer] = pre.lamports[last.initializer] - Stored.amount
    /\ lamports[last.escrow] = pre.lamports[last.escrow] + Stored.amount

(* C6: an Initialize whose initializer signed, whose escrow account is the *)
(* derived address and not yet allocated, and whose initializer can fund   *)
(* the rent minimum, succeeds; after every successful Initialize the       *)
(* record at derive(program, initializer) is {true, initializer key, taker *)
(* key, requested amount, derivation bump}.                                *)
C6_InitializeWritesRecord ==
    IsCall("Initialize") =>
        LET valid == /\ last.isig
                     /\ last.escrow = DerivedAddress
                     /\ pre.lamports[last.escrow] = 0
                     /\ pre.data[last.escrow] = <<>>
                     /\ pre.owner[last.escrow] = SystemOwner
                     /\ pre.lamports[last.initializer] >= RentMin
            rec == EscrowState_try_from_slice(data[DerivedAddress])
        IN  /\ valid => last.res = "Ok"
            /\ last.res = "Ok" =>
                   /\ valid
                   /\ rec.ok
                   /\ rec.is_initialized
                   /\ rec.initializer_pubkey = last.initializer
                   /\ rec.taker_pubkey = last.taker
                   /\ \E a \in 0 .. U64Max :
                          last.input = EncodeInitialize(a) /\ rec.amount = a
                   /\ rec.bump = find_program_address(last.initializer).bump
                   /\ Len(data[DerivedAddress]) = ESCROW_STATE_LEN

C6_Witness ==
    /\ IsCall("Initialize") /\ last.res = "Ok"
    /\ last.taker # last.initializer
    /\ last.input = EncodeInitialize(ByteBase + 1)
    /\ EscrowState_try_from_slice(data[DerivedAddress]).amount = ByteBase + 1
    /\ EscrowState_try_from_slice(data[DerivedAddress]).taker_pubkey = last.taker

(* C7: an Initialize signed by the initializer whose supplied escrow       *)
(* address is not derive(program, initializer) fails with InvalidSeeds; no *)
(* account is allocated and no record is written.                          *)
C7_InitializeInvalidSeeds ==
    (IsCall("Initialize") /\ last.isig /\ last.escrow # DerivedAddress) =>
        /\ last.res = "InvalidSeeds"
        /\ LedgerUnchanged

C7_Witness ==
    /\ IsCall("Initialize") /\ last.isig
    /\ last.escrow \in Pdas /\ last.escrow # DerivedAddress
    /\ pre.data[last.escrow] = <<>>
    /\ pre.lamports[last.initializer] >= RentMin
    /\ last.res = "InvalidSeeds"
    /\ data[last.escrow] = <<>>

(* C8: no Initialize, Deposit or Withdraw succeeds, and none changes a     *)
(* balance, when the supplied escrow account's address differs from        *)
(* derive(program, initializer).                                           *)
C8_AddressCheckedOnEveryInstruction ==
    (/\ last # NoCall
     /\ last.tag \in {"Initialize", "Deposit", "Withdraw"}
     /\ last.escrow # DerivedAddress)
        => (last.res # "Ok" /\ BalancesUnchanged)

(* C9: a Deposit or Withdraw signed by both parties, issued while no       *)
(* Initialize has created the record at derive(program, initializer),      *)
(* fails with UninitializedAccount and changes no balance.                 *)
C9_UninitializedBeforeInitialize ==
    (/\ last # NoCall
     /\ last.tag \in {"Deposit", "Withdraw"}
     /\ BothSigned
     /\ last.escrow = DerivedAddress
     /\ pre.data[DerivedAddress] = <<>>)
        => (last.res = "UninitializedAccount" /\ BalancesUnchanged)

-----------------------------------------------------------------------------
(* The scripted sequence Initialize, Deposit, Withdraw, Withdraw: the same *)
(* two wallets as initializer and taker, both signing, the escrow account  *)
(* at the derived address; a call is made only after the one before it     *)
(* returned Ok.                                                            *)

SeqAmounts == 1 .. U64Max

SeqInputs(tag) ==
    CASE tag = "Initialize" -> {EncodeInitialize(a) : a \in SeqAmounts}
      [] tag = "Deposit" -> {<<1>>}
      [] tag = "Withdraw" -> {<<2>>}

SeqStep(k, tag) ==
    /\ step = k
    /\ k > 0 => last.res = "Ok"
    /\ \E input \in SeqInputs(tag), acc \in AccountLists :
           /\ acc.isig /\ acc.tsig
           /\ acc.taker \in Wallets \ {acc.initializer}
           /\ acc.escrow = find_program_address(acc.initializer).pda
           /\ k > 0 => (acc.initializer = last.initializer /\ acc.taker = last.taker)
           /\ Execute(input, acc)
           /\ step' = k + 1

SeqInitialize == SeqStep(0, "Initialize")

SeqDeposit == SeqStep(1, "Deposit")

SeqFirstWithdraw == SeqStep(2, "Withdraw")

SeqSecondWithdraw == SeqStep(3, "Withdraw")

SeqNext == SeqInitialize \/ SeqDeposit \/ SeqFirstWithdraw \/ SeqSecondWithdraw

SpecSeq == Init /\ [][SeqNext]_vars

(* C12: in the sequence Initialize, Deposit, Withdraw, Withdraw the first  *)
(* Withdraw succeeds and the second fails with InsufficientFunds and       *)
(* changes no balance.                                                     *)
C12_SecondWithdrawFails ==
    /\ step = 3 => last.res = "Ok"
    /\ step = 4 => (last.res = "InsufficientFunds" /\ BalancesUnchanged)

(* C13: once an account holds an initialized record, no instruction,       *)
(* successful or failing, changes any field of it: is_initialized stays    *)
(* true and initializer, taker, amount and bump keep their values.         *)
C13_RecordImmutable ==
    last # NoCall =>
        \A a \in Addrs :
            LET old == EscrowState_try_from_slice(pre.data[a])
                new == EscrowState_try_from_slice(data[a])
            IN  (old.ok /\ old.is_initialized) =>
                    /\ new.ok
                    /\ new.is_initialized
                    /\ new.initializer_pubkey = old.initializer_pubkey
                    /\ new.taker_pubkey = old.taker_pubkey
                    /\ new.amount = old.amount
                    /\ new.bump = old.bump

C13_Witness ==
    /\ IsCall("Initialize") /\ last.isig
    /\ last.escrow = DerivedAddress
    /\ HasRecord
    /\ Stored.taker_pubkey # last.taker
    /\ Stored.amount # last.amount
    /\ pre.lamports[last.initializer] >= RentMin
    /\ last.res = "AccountAlreadyInUse"
    /\ data[last.escrow] = pre.data[last.escrow]

(* C14, as stated: in every step the balance of an escrow account rises    *)
(* only in a successful Deposit and falls only in a successful Withdraw,   *)
(* each time by exactly the stored amount.                                 *)
C14_EscrowBalanceOnlyDepositWithdraw ==
    last # NoCall =>
        \A a \in Pdas :
            /\ lamports[a] > pre.lamports[a] =>
                   /\ IsCall("Deposit") /\ last.res = "Ok" /\ a = last.escrow
                   /\ lamports[a] - pre.lamports[a] = Stored.amount
            /\ lamports[a] < pre.lamports[a] =>
                   /\ IsCall("Withdraw") /\ last.res = "Ok" /\ a = last.escrow
                   /\ pre.lamports[a] - lamports[a] = Stored.amount

(* C14, amended: the balance of an escrow account rises only in the        *)
(* successful Initialize that creates it, from zero to the rent minimum,   *)
(* and in a successful Deposit, by exactly the stored amount; it falls     *)
(* only in a successful Withdraw, by exactly the stored amount.            *)
C14_EscrowBalanceChanges ==
    last # NoCall =>
        \A a \in Pdas :
            /\ lamports[a] > pre.lamports[a] =>
                   \/ /\ IsCall("Initialize") /\ last.res = "Ok" /\ a = last.escrow
                      /\ pre.lamports[a] = 0
                      /\ lamports[a] = RentMin
                   \/ /\ IsCall("Deposit") /\ last.res = "Ok" /\ a = last.escrow
                      /\ lamports[a] - pre.lamports[a] = Stored.amount
            /\ lamports[a] < pre.lamports[a] =>
                   /\ IsCall("Withdraw") /\ last.res = "Ok" /\ a = last.escrow
                   /\ pre.lamports[a] - lamports[a] = Stored.amount

C14_Witness ==
    /\ IsCall("Initialize") /\ last.res = "Ok"
    /\ pre.lamports[last.escrow] = 0
    /\ lamports[last.escrow] = RentMin
    /\ lamports[last.initializer] = pre.lamports[last.initializer] - RentMin
    /\ last.amount # RentMin

(* C15: an instruction that returns an error, whichever it is, leaves      *)
(* every account's data, owner and balance exactly as before the call.     *)
C15_ErrorChangesNothing ==
    (last # NoCall /\ last.res # "Ok") => LedgerUnchanged

C15_Witness ==
    /\ IsCall("Deposit") /\ BothSigned /\ HasRecord /\ KeysAsStored
    /\ last.escrow = DerivedAddress
    /\ pre.lamports[last.initializer] > 0
    /\ pre.lamports[last.initializer] < Stored.amount
    /\ last.res = "ResultWithNegativeLamports"
    /\ LedgerUnchanged

-----------------------------------------------------------------------------
(* Decoding: one call of process_instruction on every byte string of up to *)
(* AmountLen + 2 bytes, from the initial ledger, all parties signing.      *)

MaxInputLen == AmountLen + 2

AllInputs == UNION {[1 .. n -> Byte] : n \in 0 .. MaxInputLen}

DecodeAccountLists == {acc \in AccountLists : acc.isig /\ acc.tsig}

DecodeAny ==
    /\ last = NoCall
    /\ \E input \in AllInputs, acc \in DecodeAccountLists : Call(input, acc)

SpecDecode == Init /\ [][DecodeAny]_vars

RECURSIVE WeightedSum(_, _)
WeightedSum(i, k) ==
    IF k = 0 THEN 0 ELSE i[k + 1] * Pow(ByteBase, k - 1) + WeightedSum(i, k - 1)

(* C16: an input decodes to Initialize{amount} exactly when it is byte 0   *)
(* followed by the AmountLen bytes of the amount, least significant first, *)
(* to Deposit exactly when it is the single byte 1, to Withdraw exactly    *)
(* when it is the single byte 2; every other byte string (empty, unknown   *)
(* discriminant, truncated, extra bytes) makes process_instruction return  *)
(* InvalidInstructionData with no handler run and the ledger unchanged.    *)
C16_DecodeTotal ==
    last # NoCall =>
        LET i == last.input
            isInit == Len(i) = 1 + AmountLen /\ i[1] = 0
            isDeposit == Len(i) = 1 /\ i[1] = 1
            isWithdraw == Len(i) = 1 /\ i[1] = 2
        IN  /\ isInit =>
                   /\ last.tag = "Initialize"
                   /\ last.amount = WeightedSum(i, AmountLen)
                   /\ last.res # "InvalidInstructionData"
                   /\ last.res = "Ok" =>
                          /\ data[last.escrow] # pre.data[last.escrow]
                          /\ SubSeq(data[last.escrow], 4, 3 + AmountLen)
                                 = SubSeq(i, 2, 1 + AmountLen)
            /\ isDeposit =>
                   /\ last.tag = "Deposit"
                   /\ last.res # "InvalidInstructionData"
                   /\ data = pre.data
                   /\ last.res = "Ok" => lamports[last.initializer]
                                             <= pre.lamports[last.initializer]
            /\ isWithdraw =>
                   /\ last.tag = "Withdraw"
                   /\ last.res # "InvalidInstructionData"
                   /\ data = pre.data
                   /\ last.res = "Ok" => lamports[last.taker] >= pre.lamports[last.taker]
            /\ ~(isInit \/ isDeposit \/ isWithdraw) =>
                   /\ last.tag = "Undecodable"
                   /\ last.res = "InvalidInstructionData"
                   /\ LedgerUnchanged

C16_Witness ==
    /\ last # NoCall
    /\ Len(last.input) = AmountLen + 2
    /\ last.input[1] = 0
    /\ last.input[2] > 0
    /\ last.initializer = "A" /\ last.escrow = "PA"
    /\ last.res = "InvalidInstructionData"
    /\ LedgerUnchanged

-----------------------------------------------------------------------------
(* the record held by account p now *)
RecordAt(p) == EscrowState_try_from_slice(data[p])

(* the escrow account of the calling initializer had been created by an    *)
(* earlier Initialize when the call started                                *)
EscrowAlreadyCreated ==
    /\ pre.owner[DerivedAddress] = ProgramOwner
    /\ pre.data[DerivedAddress] # <<>>

(* C17: an Initialize for an initializer whose escrow account already      *)
(* exists never succeeds and changes no record and no balance, whatever    *)
(* taker or amount it names; when it is signed by the initializer and      *)
(* names the derived address it fails with the system program's            *)
(* AccountAlreadyInUse.  Every record held by a program-owned account      *)
(* sits at the address derived from its initializer, so no two accounts    *)
(* hold a record of the same initializer.                                  *)
C17_RecordWrittenOnce ==
    /\ (IsCall("Initialize") /\ EscrowAlreadyCreated) =>
           /\ last.res # "Ok"
           /\ LedgerUnchanged
           /\ (last.isig /\ last.escrow = DerivedAddress) =>
                  last.res = "AccountAlreadyInUse"
    /\ \A p \in Addrs :
           (owner[p] = ProgramOwner /\ data[p] # <<>>) =>
               /\ RecordAt(p).ok /\ RecordAt(p).is_initialized
               /\ find_program_address(RecordAt(p).initializer_pubkey).pda = p
    /\ \A p, q \in Addrs :
           (/\ owner[p] = ProgramOwner /\ owner[q] = ProgramOwner
            /\ RecordAt(p).ok /\ RecordAt(q).ok
            /\ RecordAt(p).initializer_pubkey = RecordAt(q).initializer_pubkey)
               => p = q

C17_Witness ==
    /\ IsCall("Initialize")
    /\ EscrowAlreadyCreated
    /\ last.isig
    /\ last.escrow = DerivedAddress
    /\ Stored.taker_pubkey # last.taker
    /\ Stored.amount # last.amount
    /\ pre.lamports[last.initializer] >= RentMin
    /\ last.res = "AccountAlreadyInUse"
    /\ data[last.escrow] = pre.data[last.escrow]

-----------------------------------------------------------------------------
(* the account list of the call just made *)
LastAccounts ==
    [initializer |-> last.initializer, taker |-> last.taker, escrow |-> last.escrow,
     isig |-> last.isig, tsig |-> last.tsig]

(* the ledger now, with the balances put back to what they were before the *)
(* call: what the call changed other than balances                         *)
LedgerAtOldBalances == [Ledger EXCEPT !.lamports = pre.lamports]

(* C18: after a successful Withdraw the escrow account still holds the     *)
(* same record, still initialized; for every account list a Deposit or a   *)
(* Withdraw gets the result it would have got before the Withdraw had the  *)
(* balances been the same; and repeating the call's own account list, a    *)
(* Deposit or Withdraw can be rejected only by a balance check.            *)
C18_WithdrawNotTerminal ==
    (IsCall("Withdraw") /\ last.res = "Ok") =>
        /\ data = pre.data
        /\ RecordAt(last.escrow).ok
        /\ RecordAt(last.escrow).is_initialized
        /\ RecordAt(last.escrow) = Stored
        /\ \A acc \in AccountLists :
               /\ process_deposit(LedgerAtOldBalances, acc).res
                      = process_deposit(pre, acc).res
               /\ process_withdraw(LedgerAtOldBalances, acc).res
                      = process_withdraw(pre, acc).res
        /\ process_deposit(Ledger, LastAccounts).res
               \in {"Ok", "ResultWithNegativeLamports", "ArithmeticOverflow"}
        /\ process_withdraw(Ledger, LastAccounts).res
               \in {"Ok", "InsufficientFunds", "InvalidAccountData"}
        /\ process_withdraw(Ledger, LastAccounts).res = "Ok"
               <=> /\ lamports[last.escrow] >= Stored.amount
                   /\ (last.taker = last.escrow
                       \/ lamports[last.taker] + Stored.amount <= U64Max)

C18_Witness ==
    /\ IsCall("Withdraw")
    /\ last.res = "Ok"
    /\ Stored.amount > 0
    /\ last.taker # last.initializer
    /\ process_deposit(Ledger, LastAccounts).res = "Ok"
    /\ process_withdraw(Ledger, LastAccounts).res = "InsufficientFunds"

-----------------------------------------------------------------------------
(* C19: a Deposit returns MissingRequiredSignature exactly when the        *)
(* initializer or the taker has not signed, and an Initialize returns it   *)
(* exactly when the initializer has not signed (the taker's signature is   *)
(* not looked at), whatever the escrow account holds and whatever address  *)
(* is supplied; the call then changes nothing.                             *)
C19_SignatureCheckedFirst ==
    /\ IsCall("Deposit") =>
           /\ ~BothSigned <=> last.res = "MissingRequiredSignature"
           /\ ~BothSigned => LedgerUnchanged
    /\ IsCall("Initialize") =>
           /\ ~last.isig <=> last.res = "MissingRequiredSignature"
           /\ ~last.isig => LedgerUnchanged

C19_Witness ==
    /\ IsCall("Deposit")
    /\ last.isig /\ ~last.tsig
    /\ last.escrow # DerivedAddress
    /\ ~Stored.ok
    /\ last.res = "MissingRequiredSignature"

C19_InitializeWithoutTakerSignature ==
    /\ IsCall("Initialize")
    /\ last.isig /\ ~last.tsig
    /\ last.res = "Ok"

-----------------------------------------------------------------------------
RECURSIVE SumOver(_, _)
SumOver(S, f) ==
    IF S = {} THEN 0
    ELSE LET a == CHOOSE x \in S : TRUE IN f[a] + SumOver(S \ {a}, f)

(* the accounts of the call just made, each counted once *)
Parties == {last.initializer, last.taker, last.escrow}

(* C20: no instruction creates or destroys lamports: after every call,     *)
(* successful or not, the balances of the accounts it names (initializer,  *)
(* taker, escrow account; an account passed in two roles counted once) sum *)
(* to what they did before the call, and after any sequence of calls the   *)
(* balances of all accounts sum to their initial total.                    *)
C20_ValueConserved ==
    /\ SumOver(Addrs, lamports) = SumOver(Addrs, InitLamports)
    /\ last # NoCall =>
           /\ SumOver(Parties, lamports) = SumOver(Parties, pre.lamports)
           /\ \A a \in Addrs \ Parties : lamports[a] = pre.lamports[a]
    /\ \A a \in Addrs : lamports[a] \in 0 .. U64Max

C20_Witness ==
    /\ IsCall("Withdraw")
    /\ last.res = "Ok"
    /\ last.taker # last.initializer
    /\ Stored.amount > RentMin
    /\ lamports[last.taker] = pre.lamports[last.taker] + Stored.amount
    /\ lamports[last.escrow] = pre.lamports[last.escrow] - Stored.amount
    /\ lamports[last.initializer] < InitLamports[last.initializer]

====
